---- MODULE Spec2Model ----
(***************************************************************************)
(* Model of engine/src/scramble/fourier.rs (FourierScrambler).             *)
(*                                                                         *)
(* Numbers.  A sample is an integer number of 8-bit levels (the code's     *)
(* value is that number / 255).  An angle is an integer number of lattice  *)
(* steps of pi/8.  A Complex64 is kept in canonical polar form             *)
(* [mag, ph]: ph is what arg() returns, in (-PI, PI], and the zero         *)
(* coefficient has ph = 0.  Arithmetic on these is exact; a real part is   *)
(* taken through a cosine table in thousandths.  Floating-point rounding   *)
(* and signed zeros are outside the model.                                 *)
(***************************************************************************)
EXTENDS Integers, Sequences, FiniteSets, TLC

VARIABLES pad, spectrum, scr, calls

vars == <<pad, spectrum, scr, calls>>

(***************************************************************************)
(* Bounds of the model.                                                    *)
(***************************************************************************)
\* largest width / height of a plane handed to apply_padding
MaxSide == 4

\* number of sample patterns tried per plane shape
MaxPattern == 2

Max(a, b) == IF a >= b THEN a ELSE b

Min(a, b) == IF a <= b THEN a ELSE b

(***************************************************************************)
(* get_optimal_fft_size / is_power_of_two                                  *)
(***************************************************************************)
RECURSIVE BitAnd(_, _)
\* n & m on unsigned integers
BitAnd(n, m) ==
    IF n = 0 \/ m = 0 THEN 0
    ELSE (n % 2) * (m % 2) + 2 * BitAnd(n \div 2, m \div 2)

\* a plausible slip: tests the lowest bit only
IsPowerOfTwoEven(n) == n # 0 /\ n % 2 = 0

IsPowerOfTwo(n) == n # 0 /\ BitAnd(n, n - 1) = 0

RECURSIVE GetOptimalFftSize(_)
\* while !is_power_of_two(optimal_size) { optimal_size += 1 }
GetOptimalFftSize(size) ==
    IF IsPowerOfTwo(size) THEN size ELSE GetOptimalFftSize(size + 1)

(***************************************************************************)
(* Padding engine.  A plane is a function on 0..(h*w - 1), row-major.      *)
(***************************************************************************)
PaddingModes == {"Zero", "Reflect", "Wrap"}

\* 2 * width - x - 1 (usize).  Below zero the subtraction overflows: a
\* debug build panics there, a release build wraps to a value far beyond
\* the array and the indexing panics.
MirrorIndex(dim, i) == 2 * dim - i - 1

\* the mirror indices the two Reflect loops evaluate, in the order of the
\* code, up to and including the first one below zero
MirrorsEvaluated(height, width, padded_size) ==
    LET horiz == {MirrorIndex(width, x) : x \in width .. Min(padded_size - 1, 2 * width)}
        hpanic == padded_size > 2 * width
        vert == {MirrorIndex(height, y) : y \in height .. Min(padded_size - 1, 2 * height)}
    IN IF hpanic THEN horiz ELSE horiz \cup vert

\* apply_padding: [status, padded_size, data, mirrors]
ApplyPadding(channel, height, width, mode) ==
    LET padded_size == GetOptimalFftSize(Max(width, height))
        cells == 0 .. (padded_size * padded_size - 1)
        Y(i) == i \div padded_size
        X(i) == i % padded_size
        zero == [i \in cells |->
                    IF Y(i) < height /\ X(i) < width
                    THEN channel[Y(i) * width + X(i)] ELSE 0]
        mirrors == MirrorsEvaluated(height, width, padded_size)
        RY(i) == IF Y(i) < height THEN Y(i) ELSE MirrorIndex(height, Y(i))
        RX(i) == IF X(i) < width THEN X(i) ELSE MirrorIndex(width, X(i))
        reflect == [i \in cells |-> channel[RY(i) * width + RX(i)]]
        wrap == [i \in cells |-> channel[(Y(i) % height) * width + (X(i) % width)]]
    IN CASE mode = "Zero" ->
              [status |-> "ok", padded_size |-> padded_size, data |-> zero, mirrors |-> {}]
         [] mode = "Reflect" /\ (\E m \in mirrors : m < 0) ->
              [status |-> "panic", padded_size |-> padded_size, data |-> <<>>,
               mirrors |-> mirrors]
         [] mode = "Reflect" ->
              [status |-> "ok", padded_size |-> padded_size, data |-> reflect,
               mirrors |-> mirrors]
         [] OTHER ->
              [status |-> "ok", padded_size |-> padded_size, data |-> wrap, mirrors |-> {}]

\* remove_padding on the real parts: [padded_size, data]
RemovePadding(re, height, width) ==
    LET padded_size == GetOptimalFftSize(Max(width, height))
    IN [padded_size |-> padded_size,
        data |-> [i \in 0 .. (height * width - 1) |->
                    re[(i \div width) * padded_size + (i % width)]]]

\* the samples of test plane number k
Sample(k, y, x) == (97 * k + 31 * y + 7 * x) % 256

PlaneOf(k, height, width) ==
    [i \in 0 .. (height * width - 1) |-> Sample(k, i \div width, i % width)]

InitPad ==
    /\ \E h \in 1 .. MaxSide, w \in 1 .. MaxSide, m \in PaddingModes, k \in 1 .. MaxPattern :
          pad = [pc |-> "input", height |-> h, width |-> w, mode |-> m,
                 channel |-> PlaneOf(k, h, w),
                 padded_size |-> 0, padded |-> <<>>, mirrors |-> {},
                 unpad_size |-> 0, unpadded |-> <<>>]
    /\ spectrum = [pc |-> "idle"]
    /\ scr = <<>>
    /\ calls = <<>>

\* let padded = self.apply_padding(&channel)?
ApplyPaddingCall ==
    /\ pad.pc = "input"
    /\ LET r == ApplyPadding(pad.channel, pad.height, pad.width, pad.mode)
       IN pad' = [pad EXCEPT !.pc = r.status, !.padded_size = r.padded_size,
                             !.padded = r.data, !.mirrors = r.mirrors]
    /\ UNCHANGED <<spectrum, scr, calls>>

\* self.remove_padding(&complex_data, channel.dim()) on the padded plane
RemovePaddingCall ==
    /\ pad.pc = "ok"
    /\ LET r == RemovePadding(pad.padded, pad.height, pad.width)
       IN pad' = [pad EXCEPT !.pc = "unpadded", !.unpad_size = r.padded_size,
                             !.unpadded = r.data]
    /\ UNCHANGED <<spectrum, scr, calls>>

NextPad == ApplyPaddingCall \/ RemovePaddingCall

SpecPad == InitPad /\ [][NextPad]_vars

(***************************************************************************)
(* Complex64 in canonical polar form, angles in lattice steps of pi/8.     *)
(***************************************************************************)
\* std::f64::consts::PI, in lattice steps
PI == 8

TwoPi == 2 * PI

\* the angle p brought into (-PI, PI], the range of Complex64::arg
WrapPhase(p) == ((p + PI - 1) % TwoPi) - PI + 1

\* a plausible slip: norm_sqr() in place of norm()
NormSqr(z) == z.mag * z.mag

\* Complex64::norm
Norm(z) == z.mag

\* Complex64::arg
Arg(z) == z.ph

\* Complex64::from_polar(mag, phase)
FromPolar(mag, phase) ==
    IF mag = 0 THEN [mag |-> 0, ph |-> 0] ELSE [mag |-> mag, ph |-> WrapPhase(phase)]

\* Complex64::conj
Conj(z) == FromPolar(z.mag, -z.ph)

\* Complex64::new(val, 0.0)
OfReal(v) == IF v < 0 THEN [mag |-> -v, ph |-> PI] ELSE [mag |-> v, ph |-> 0]

RECURSIVE WhileAbove(_)
\* while diff > PI { diff -= 2.0 * PI }
WhileAbove(diff) == IF diff > PI THEN WhileAbove(diff - TwoPi) ELSE diff

RECURSIVE WhileBelow(_)
\* while diff < -PI { diff += 2.0 * PI }
WhileBelow(diff) == IF diff < -PI THEN WhileBelow(diff + TwoPi) ELSE diff

AngleDifference(a, b) == WhileBelow(WhileAbove(a - b))

(***************************************************************************)
(* The random generator: a sequential state, advanced once per draw.       *)
(***************************************************************************)
\* number of generator states
RngMod == 8

RngStates == 0 .. (RngMod - 1)

\* the state after one draw
NextRng(s) == (5 * s + 3) % RngMod

\* self.rng.gen_range(0.0..2*PI): the phase the state yields, in [0, 2*PI)
GenRange(s) == 2 * s

(***************************************************************************)
(* phase_scramble                                                          *)
(***************************************************************************)
\* intensity is a multiple of 1 / IntensityDen in [0, 1]
IntensityDen == 2

Intensities == 0 .. IntensityDen

\* (data.len() as f64).sqrt() as usize
ISqrt(k) == CHOOSE r \in 0 .. k : r * r <= k /\ (r + 1) * (r + 1) > k

\* if y == 0 { 0 } else { n - y }
SymCoord(n, c) == IF c = 0 THEN 0 ELSE n - c

SymIdx(n, idx) == SymCoord(n, idx \div n) * n + SymCoord(n, idx % n)

\* a plausible slip: the column comparison left out
SkipRowsOnly(n, y, x) == y > SymCoord(n, y)

\* if y > sym_y || (y == sym_y && x > sym_x) { continue }
Skip(n, y, x) ==
    y > SymCoord(n, y) \/ (y = SymCoord(n, y) /\ x > SymCoord(n, x))

\* a plausible slip: the intensity factor left out
NewPhaseFull(orig_phase, intensity, dphase) == orig_phase + dphase

\* orig_phase + self.options.intensity as f64 * dphase
NewPhase(orig_phase, intensity, dphase) ==
    orig_phase + (intensity * dphase) \div IntensityDen

\* one iteration of the loop body at flat index idx.  st.data and st.rng are
\* the code's state; st.writes counts the assignments to each coefficient
\* and st.visits lists the visited indices with the phase drawn for each.
PhaseStep(st, n, intensity, idx) ==
    LET y == idx \div n
        x == idx % n
        sym_y == SymCoord(n, y)
        sym_x == SymCoord(n, x)
        orig == st.data[idx]
        mag == Norm(orig)
        orig_phase == Arg(orig)
        rng1 == NextRng(st.rng)
        random_phase == GenRange(rng1)
        dphase == AngleDifference(random_phase, orig_phase)
        new_phase == NewPhase(orig_phase, intensity, dphase)
        new_val == FromPolar(mag, new_phase)
        sym_idx == sym_y * n + sym_x
        self_paired == (y = sym_y /\ x = sym_x)
        data1 == [st.data EXCEPT ![idx] = new_val]
        writes1 == [st.writes EXCEPT ![idx] = @ + 1]
    IN IF Skip(n, y, x) THEN st
       ELSE [data |-> IF self_paired THEN data1
                      ELSE [data1 EXCEPT ![sym_idx] = Conj(new_val)],
             rng |-> rng1,
             writes |-> IF self_paired THEN writes1
                        ELSE [writes1 EXCEPT ![sym_idx] = @ + 1],
             visits |-> Append(st.visits,
                               [idx |-> idx, random_phase |-> random_phase])]

RECURSIVE PhaseCols(_, _, _, _, _)
\* for x in 0..n { ... }.  The loop state is a value of the code at every
\* iteration; the test on st.rng makes it one here too.
PhaseCols(st, n, intensity, y, x) ==
    IF x >= n \/ st.rng \notin RngStates THEN st
    ELSE PhaseCols(PhaseStep(st, n, intensity, y * n + x), n, intensity, y, x + 1)

RECURSIVE PhaseRows(_, _, _, _)
\* for y in 0..n { ... }
PhaseRows(st, n, intensity, y) ==
    IF y >= n THEN st
    ELSE PhaseRows(PhaseCols(st, n, intensity, y, 0), n, intensity, y + 1)

\* phase_scramble(&mut self, data): [data, rng, writes, visits]
PhaseScramble(data, rng, intensity) ==
    LET n == ISqrt(Cardinality(DOMAIN data))
    IN PhaseRows([data |-> data, rng |-> rng,
                  writes |-> [i \in DOMAIN data |-> 0], visits |-> <<>>],
                 n, intensity, 0)

(***************************************************************************)
(* Spectra of real planes.  The transform of a real plane with samples     *)
(* >= 0 is Hermitian with a real DC term >= the sum of the other           *)
(* magnitudes, and every such spectrum is the transform of such a plane.   *)
(***************************************************************************)
\* sides are 1, 2, .. 2^MaxLog2
MaxLog2 == 2

\* largest magnitude of a coefficient other than DC
MaxMag == 2

Sides == {2 ^ k : k \in 0 .. MaxLog2}

\* phases of the coefficients tried: the multiples of pi/4
EvenPhases == {p \in (1 - PI) .. PI : p % 2 = 0}

Coeffs == {FromPolar(m, p) : m \in 0 .. MaxMag, p \in EvenPhases}

RealCoeffs == {OfReal(v) : v \in (-MaxMag) .. MaxMag}

IsSelfPaired(n, idx) == SymIdx(n, idx) = idx

RECURSIVE SumMag(_, _)
SumMag(f, k) == IF k < 0 THEN 0 ELSE f[k].mag + SumMag(f, k - 1)

\* the Hermitian n x n spectrum built from coefficient c (rotated from bin
\* to bin) on the paired bins and the real r on the self-paired ones
SpectrumOf(n, c, r) ==
    LET cells == 0 .. (n * n - 1)
        rot(i) == FromPolar(c.mag, c.ph + 2 * i)
        body == [i \in cells |->
                   IF i = 0 THEN OfReal(0)
                   ELSE IF IsSelfPaired(n, i) THEN r
                   ELSE IF i < SymIdx(n, i) THEN rot(i)
                   ELSE Conj(rot(SymIdx(n, i)))]
    IN [body EXCEPT ![0] = OfReal(SumMag(body, n * n - 1))]

Hermitian(n, data) ==
    \A i \in 0 .. (n * n - 1) : data[i] = Conj(data[SymIdx(n, i)])

InitPhase ==
    /\ \E n \in Sides, c \in Coeffs, r \in RealCoeffs, i \in Intensities, s \in RngStates :
          spectrum = [pc |-> "transformed", n |-> n, intensity |-> i,
                      orig |-> SpectrumOf(n, c, r), data |-> SpectrumOf(n, c, r),
                      rng0 |-> s, rng |-> s,
                      writes |-> [k \in 0 .. (n * n - 1) |-> 0], visits |-> <<>>]
    /\ pad = [pc |-> "idle"]
    /\ scr = <<>>
    /\ calls = <<>>

\* self.phase_scramble(&mut complex_data)
PhaseScrambleCall ==
    /\ spectrum.pc = "transformed"
    /\ LET r == PhaseScramble(spectrum.data, spectrum.rng, spectrum.intensity)
       IN spectrum' = [spectrum EXCEPT !.pc = "scrambled", !.data = r.data,
                                       !.rng = r.rng, !.writes = r.writes,
                                       !.visits = r.visits]
    /\ UNCHANGED <<pad, scr, calls>>

NextPhase == PhaseScrambleCall

SpecPhase == InitPhase /\ [][NextPhase]_vars

(***************************************************************************)
(* Spectral transform.  rustfft's process() transforms the buffer chunk by *)
(* chunk of the plan's length and panics when the buffer is shorter than   *)
(* the plan or not a multiple of it.  Planes here have sides 1 and 2, so   *)
(* the plans are the 1-point and the 2-point transform, both real: the     *)
(* real part of a transform is the transform of the real parts.            *)
(***************************************************************************)
\* 1000 * cos(ph * pi/8)
CosMilli(ph) ==
    LET a == IF ph < 0 THEN -ph ELSE ph
    IN CASE a = 0 -> 1000 [] a = 1 -> 924 [] a = 2 -> 707 [] a = 3 -> 383
         [] a = 4 -> 0 [] a = 5 -> -383 [] a = 6 -> -707 [] a = 7 -> -924
         [] OTHER -> -1000

\* 1000 * z.re
ReMilli(z) == z.mag * CosMilli(z.ph)

\* one pass of the plan over the lines of stride s (1: rows, n: columns)
PlanPass(v, n, plan, s) ==
    [i \in DOMAIN v |->
        LET q == ((i \div s) % n) % plan
        IN IF plan = 1 THEN v[i]
           ELSE IF q = 0 THEN v[i] + v[i + s] ELSE v[i - s] - v[i]]

\* rows, then columns
Transform2d(v, n, plan) == PlanPass(PlanPass(v, n, plan, 1), n, plan, n)

\* Fft::process takes a buffer of n elements under a plan of length plan
PlanAccepts(n, plan) == n >= plan /\ n % plan = 0

\* fft2d(&self, data, n) on the real plane `re`: [status, data]
Fft2d(re, n, plan) ==
    LET t == Transform2d(re, n, plan)
    IN IF ~PlanAccepts(n, plan) THEN [status |-> "panic", data |-> <<>>]
       ELSE [status |-> "ok", data |-> [i \in DOMAIN re |-> OfReal(t[i])]]

\* ifft2d(&self, data, n): the real parts of the result, in units of
\* 1 / (1000 * n * n) (the scale 1/(n*n) is kept as the denominator)
Ifft2d(data, n, plan) ==
    Transform2d([i \in DOMAIN data |-> ReMilli(data[i])], n, plan)

(***************************************************************************)
(* Channel pipeline.  An image is [w, h, px], px row-major RGB triples.    *)
(***************************************************************************)
\* val.max(0.0).min(1.0), val = num / den in 8-bit levels
Clamp(num, den) == Min(Max(num, 0), 255 * den)

\* what process_channel yields when a call inside it panics
ChannelPanic(rng) == [status |-> "panic", data |-> <<>>, den |-> 1, rng |-> rng]

\* result.mapv_inplace(|val| val.max(0.0).min(1.0)); Ok(result)
Clamped(result, den, rng) ==
    [status |-> "ok", data |-> [i \in DOMAIN result |-> Clamp(result[i], den)],
     den |-> den, rng |-> rng]

\* ifft2d, then remove_padding, on the scrambled spectrum
Inverted(scrambled, n, height, width, plan) ==
    Clamped(RemovePadding(Ifft2d(scrambled.data, n, plan), height, width).data,
            1000 * n * n, scrambled.rng)

\* if self.options.phase_scramble { self.phase_scramble(&mut complex_data) }
Transformed(spec0, n, height, width, options, plan, rng) ==
    IF spec0.status = "panic" THEN ChannelPanic(rng)
    ELSE Inverted(IF options.phase_scramble
                  THEN PhaseScramble(spec0.data, rng, options.intensity)
                  ELSE [data |-> spec0.data, rng |-> rng],
                  n, height, width, plan)

\* to_complex and fft2d on the padded plane
Padded(padded, height, width, options, plan, rng) ==
    IF padded.status = "panic" THEN ChannelPanic(rng)
    ELSE Transformed(Fft2d(padded.data, padded.padded_size, plan), padded.padded_size,
                     height, width, options, plan, rng)

\* process_channel: [status, data, den, rng]; data are clamped numerators
\* over the denominator den
ProcessChannel(channel, height, width, options, plan, rng) ==
    Padded(ApplyPadding(channel, height, width, options.padding_mode),
           height, width, options, plan, rng)

\* split_channels: channel c of the image
SplitChannel(image, c) == [i \in DOMAIN image.px |-> image.px[i][c]]

\* combine_channels: (value * 255.0) as u8
CombineChannels(width, height, planes) ==
    [w |-> width, h |-> height,
     px |-> [i \in 0 .. (width * height - 1) |->
               <<planes[1].data[i] \div planes[1].den,
                 planes[2].data[i] \div planes[2].den,
                 planes[3].data[i] \div planes[3].den>>]]

\* .map(|channel| self.process_channel(channel)): the plane joins the ones
\* done, the generator moves on; a panic ends the call
ChannelDone(st, plane) ==
    IF plane.status = "panic" THEN [st EXCEPT !.status = "panic"]
    ELSE [st EXCEPT !.planes = Append(@, plane), !.rng = plane.rng]

RECURSIVE Channels(_, _, _, _)
\* the r, g and b planes processed in this order, each starting from the
\* generator state the one before left: st = [status, planes, rng]
Channels(self, image, st, c) ==
    IF c > 3 \/ st.status = "panic" THEN st
    ELSE Channels(self, image,
                  ChannelDone(st, ProcessChannel(SplitChannel(image, c), image.h, image.w,
                                                 self.options, self.plan, st.rng)),
                  c + 1)

\* self.combine_channels(processed_channels), or no result after a panic
Combined(self, image, st) ==
    IF st.status = "panic"
    THEN [self |-> [self EXCEPT !.alive = FALSE], kind |-> "panic", image |-> <<>>]
    ELSE [self |-> [self EXCEPT !.rng = st.rng], kind |-> "ok",
          image |-> CombineChannels(image.w, image.h, st.planes)]

\* scramble(&mut self, image): [self, kind, image].  A panic leaves no
\* result; the working width and height are already overwritten.
Scramble(self, image) ==
    Combined([self EXCEPT !.width = image.w, !.height = image.h], image,
             Channels(self, image,
                      [status |-> "ok", planes |-> <<>>, rng |-> self.rng], 1))

(***************************************************************************)
(* Region orchestrator                                                     *)
(***************************************************************************)
BackgroundModes == {"Include", "Exclude"}

\* the boxes (x1, y1, x2, y2) inside a w x h image, x1 < x2 and y1 < y2
Boxes(w, h) ==
    {[x1 |-> a, y1 |-> b, x2 |-> c, y2 |-> d] :
        a \in 0 .. (w - 1), b \in 0 .. (h - 1), c \in 1 .. w, d \in 1 .. h}
    \cap {r \in [x1 : 0 .. w, y1 : 0 .. h, x2 : 0 .. w, y2 : 0 .. h] :
            r.x1 < r.x2 /\ r.y1 < r.y2}

\* region_img: the pixels of the region copied out of the image
Crop(image, region) ==
    LET rw == region.x2 - region.x1
        rh == region.y2 - region.y1
    IN [w |-> rw, h |-> rh,
        px |-> [j \in 0 .. (rw * rh - 1) |->
                  image.px[((j \div rw) + region.y1) * image.w + (j % rw) + region.x1]]]

\* a plausible slip: the region's offset left out
PasteIndexNoOffset(region, x, y, w) == y * w + x

\* the cell put_pixel(x + region.x1, y + region.y1, px) writes
PasteIndex(region, x, y, w) == (y + region.y1) * w + (x + region.x1)

\* the second pair of loops: the processed crop written over the canvas
Paste(canvas, region, processed) ==
    LET rw == region.x2 - region.x1
        Src(i) == {j \in DOMAIN processed.px :
                      PasteIndex(region, j % rw, j \div rw, canvas.w) = i}
    IN [canvas EXCEPT !.px =
           [i \in DOMAIN canvas.px |->
               IF Src(i) = {} THEN canvas.px[i]
               ELSE processed.px[CHOOSE j \in Src(i) : TRUE]]]

\* a plausible slip: Exclude starting from the source image
ExcludeCanvasClone(image) == image

\* DynamicImage::new_rgb8(width, height)
ExcludeCanvas(image) ==
    [w |-> image.w, h |-> image.h, px |-> [i \in DOMAIN image.px |-> <<0, 0, 0>>]]

\* what one scramble invocation was asked and how it ended
Invocation(image, plan, kind) ==
    [w |-> image.w, h |-> image.h,
     required |-> GetOptimalFftSize(Max(image.w, image.h)),
     plan |-> plan, kind |-> kind]

RECURSIVE RegionLoop(_, _, _, _)
\* let processed = self.scramble(&region_img)?, then the paste loops
\* st = [self, kind, canvas, crops, log]
RegionDone(st, image, regions, k, r) ==
    IF r.kind = "panic"
    THEN [st EXCEPT !.self = r.self, !.kind = "panic",
                    !.log = Append(@, Invocation(Crop(image, regions[k]), st.self.plan,
                                                 r.kind))]
    ELSE RegionLoop([st EXCEPT !.self = r.self,
                               !.canvas = Paste(@, regions[k], r.image),
                               !.crops = Append(@, r.image),
                               !.log = Append(@, Invocation(Crop(image, regions[k]),
                                                            st.self.plan, r.kind))],
                    image, regions, k + 1)

\* for region in face_regions { crop; scramble; paste }
RegionLoop(st, image, regions, k) ==
    IF k > Len(regions) THEN st
    ELSE RegionDone(st, image, regions, k, Scramble(st.self, Crop(image, regions[k])))

\* Ok(result), or no result after a panic
Returned(st) ==
    [self |-> st.self, kind |-> st.kind,
     image |-> IF st.kind = "ok" THEN st.canvas ELSE <<>>,
     crops |-> st.crops, log |-> st.log]

\* scramble_with_face_detection: [self, kind, image, crops, log].  The
\* detector is external: detected is its outcome, [status, regions].
ScrambleWithFaceDetection(self, image, detected, background_mode) ==
    IF detected.status # "ok"
    THEN [self |-> self, kind |-> detected.status, image |-> <<>>,
          crops |-> <<>>, log |-> <<>>]
    ELSE Returned(RegionLoop([self |-> self, kind |-> "ok",
                              canvas |-> IF background_mode = "Include" THEN image
                                         ELSE ExcludeCanvas(image),
                              crops |-> <<>>, log |-> <<>>],
                             image, detected.regions, 1))

(***************************************************************************)
(* Scrambler instances and their calls.                                    *)
(***************************************************************************)
\* top-level calls per instance
MaxCalls == 2

\* regions the detector returns per call
MaxRegions == 2

\* explicit seeds are 0 .. MaxSeed
MaxSeed == 1

\* image sides at this level: the planes whose transform stays real
ImageSides == {1, 2}

\* seed: Option<u64>
NoSeed == <<>>

Seeds == {<<k>> : k \in 0 .. MaxSeed}

\* StdRng::seed_from_u64(seed)
SeedFromU64(seed) == (3 * seed + 1) % RngMod

\* a plausible slip: the seed ignored, OS entropy always
SeedRngOs(seed) == RngStates

\* the generator states construction can yield: from_os_rng() is any state
SeedRng(seed) == IF seed = NoSeed THEN RngStates ELSE {SeedFromU64(seed[1])}

\* options with the intensity left at 0 where it is never read
OptionSet ==
    {o \in [phase_scramble : BOOLEAN, intensity : Intensities, padding_mode : PaddingModes] :
        ~o.phase_scramble => o.intensity = 0}

\* FourierScrambler::new: the instances it can return.  seed is kept
\* beside the fields to tell how the instance was built.
New(width, height, options, seed) ==
    {[width |-> width, height |-> height,
      plan |-> GetOptimalFftSize(Max(width, height)),
      options |-> options, rng |-> r, seed |-> seed, alive |-> TRUE] :
        r \in SeedRng(seed)}

ImageOf(k, w, h) ==
    [w |-> w, h |-> h,
     px |-> [i \in 0 .. (w * h - 1) |->
               <<Sample(k, i \div w, i % w), Sample(k + 1, i \div w, i % w),
                 Sample(k + 2, i \div w, i % w)>>]]

Images == {ImageOf(1, w, h) : w \in ImageSides, h \in ImageSides}

RegionLists(image, len) ==
    UNION {[1 .. k -> Boxes(image.w, image.h)] : k \in 0 .. len}

DetectorFailures == {"DetectorLoadFailed", "DetectorInferenceFailed"}

\* every instance is handed the same sequence of calls
Replays(i, input) ==
    \A j \in DOMAIN scr :
       Len(calls[j]) > Len(calls[i]) => calls[j][Len(calls[i]) + 1].input = input

CanCall(i) == scr[i].alive /\ Len(calls[i]) < MaxCalls

InitOne ==
    /\ \E w \in ImageSides, o \in OptionSet, sd \in Seeds \cup {NoSeed} :
          \E a \in New(w, w, o, sd) : scr = <<a>>
    /\ calls = <<<<>>>>
    /\ pad = [pc |-> "idle"]
    /\ spectrum = [pc |-> "idle"]

InitFace ==
    /\ \E w \in ImageSides, o \in OptionSet :
          \E a \in New(w, w, o, <<0>>) : scr = <<a>>
    /\ calls = <<<<>>>>
    /\ pad = [pc |-> "idle"]
    /\ spectrum = [pc |-> "idle"]

InitPair ==
    /\ \E w \in ImageSides, o \in OptionSet, sd \in Seeds :
          \E a \in New(w, w, o, sd), b \in New(w, w, o, sd) : scr = <<a, b>>
    /\ calls = <<<<>>, <<>>>>
    /\ pad = [pc |-> "idle"]
    /\ spectrum = [pc |-> "idle"]

\* scrambler.scramble(&image)
ScrambleCall(i) ==
    /\ CanCall(i)
    /\ \E image \in Images :
       \E input \in {[op |-> "scramble", image |-> image, regions |-> <<>>,
                      mode |-> "none"]} :
          /\ Replays(i, input)
          /\ \E r \in {Scramble(scr[i], image)} :
                /\ scr' = [scr EXCEPT ![i] = r.self]
                /\ calls' = [calls EXCEPT ![i] =
                               Append(@, [input |-> input, kind |-> r.kind,
                                          output |-> r.image,
                                          rng0 |-> scr[i].rng, rng |-> r.self.rng,
                                          crops |-> <<>>,
                                          log |-> <<Invocation(image, scr[i].plan,
                                                               r.kind)>>])]
          /\ UNCHANGED <<pad, spectrum>>

\* scrambler.scramble_with_face_detection(&image, &face_opts), the detector
\* failing or returning an ordered list of regions inside the image
FaceCall(i) ==
    /\ scr[i].alive /\ calls[i] = <<>>
    /\ \E image \in Images, mode \in BackgroundModes :
       \E detected \in
            {[status |-> f, regions |-> <<>>] : f \in DetectorFailures}
            \cup {[status |-> "ok", regions |-> l] : l \in RegionLists(image, MaxRegions)} :
          \E r \in {ScrambleWithFaceDetection(scr[i], image, detected, mode)} :
             /\ scr' = [scr EXCEPT ![i] = r.self]
             /\ calls' = [calls EXCEPT ![i] =
                            Append(@, [input |-> [op |-> detected.status, image |-> image,
                                                  regions |-> detected.regions,
                                                  mode |-> mode],
                                       kind |-> r.kind, output |-> r.image,
                                       rng0 |-> scr[i].rng, rng |-> r.self.rng,
                                       crops |-> r.crops, log |-> r.log])]
             /\ UNCHANGED <<pad, spectrum>>

Next == \E i \in DOMAIN scr : ScrambleCall(i)

NextFace == \E i \in DOMAIN scr : FaceCall(i)

\* one instance, a sequence of scramble calls
Spec == InitOne /\ [][Next]_vars

\* one instance, one scramble_with_face_detection call
SpecFace == InitFace /\ [][NextFace]_vars

\* two instances built alike, handed the same scramble calls
SpecPair == InitPair /\ [][Next]_vars

(***************************************************************************)
(* Size and padding properties.                                            *)
(***************************************************************************)
Pow2(p) == \E k \in 0 .. p : 2 ^ k = p

SmallestPow2AtLeast(p, m) ==
    /\ Pow2(p)
    /\ p >= m
    /\ \A q \in 1 .. (p - 1) : Pow2(q) => q < m

PadRan == pad.pc \in {"ok", "panic", "unpadded"}

\* C9: the padded size apply_padding and remove_padding compute is the
\* smallest power of two that is >= max(width, height): a power of two,
\* >= both dimensions, and no smaller power of two is >= the larger one.
C9_PaddedSizeIsNextPowerOfTwo ==
    /\ PadRan =>
          /\ SmallestPow2AtLeast(pad.padded_size, Max(pad.width, pad.height))
          /\ pad.padded_size >= pad.width /\ pad.padded_size >= pad.height
    /\ pad.pc = "unpadded" =>
          /\ pad.unpad_size = pad.padded_size
          /\ SmallestPow2AtLeast(pad.unpad_size, Max(pad.width, pad.height))

\* a 3 x 2 plane has been padded to side 4 and cropped back
C9_Witness ==
    /\ pad.pc = "unpadded"
    /\ pad.width = 3 /\ pad.height = 2
    /\ pad.padded_size = 4 /\ pad.unpad_size = 4
    /\ pad.unpadded = pad.channel

\* C3: Reflect padding with padded_size >= 2*width or padded_size >=
\* 2*height ends as an UnsupportedPaddingGeometry error, and no mirror index
\* below zero is ever evaluated.
C3_ReflectGeometryIsRejected ==
    (PadRan /\ pad.mode = "Reflect"
       /\ (pad.padded_size >= 2 * pad.width \/ pad.padded_size >= 2 * pad.height))
    => (pad.pc = "UnsupportedPaddingGeometry" /\ \A m \in pad.mirrors : m >= 0)

(***************************************************************************)
(* Phase scrambler properties.                                             *)
(***************************************************************************)
Scrambled == spectrum.pc = "scrambled"

Cells == 0 .. (spectrum.n * spectrum.n - 1)

RECURSIVE Advance(_, _)
\* the generator state after k draws
Advance(s, k) == IF k = 0 THEN s ELSE Advance(NextRng(s), k - 1)

\* the conjugate pairs and self-paired bins of an n x n spectrum
PairClasses(n) == {{i, SymIdx(n, i)} : i \in 0 .. (n * n - 1)}

VisitsOf(class) ==
    {k \in 1 .. Len(spectrum.visits) : spectrum.visits[k].idx \in class}

\* C1: after phase_scramble every coefficient, the self-paired bins
\* included, equals the conjugate of the coefficient at the mirrored
\* coordinate ((n-y) mod n, (n-x) mod n).
C1_HermitianAfterScramble ==
    Scrambled => Hermitian(spectrum.n, spectrum.data)

\* C1 without the self-paired bins: what the code does establish
C1_HermitianOffSelfPairedBins ==
    Scrambled =>
       \A i \in Cells :
          ~IsSelfPaired(spectrum.n, i) =>
             spectrum.data[i] = Conj(spectrum.data[SymIdx(spectrum.n, i)])

\* C7: at intensity 0 the spectrum after phase_scramble is the spectrum
\* before it, coefficient by coefficient, whatever phases were drawn.
C7_ZeroIntensityIsIdentity ==
    (Scrambled /\ spectrum.intensity = 0) => spectrum.data = spectrum.orig

\* a 4 x 4 spectrum went through at intensity 0, and a paired bin of
\* magnitude > 0 drew a phase other than its own
C7_Witness ==
    /\ Scrambled /\ spectrum.intensity = 0 /\ spectrum.n = 4
    /\ \E k \in 1 .. Len(spectrum.visits) :
          LET v == spectrum.visits[k]
          IN /\ ~IsSelfPaired(4, v.idx)
             /\ spectrum.orig[v.idx].mag > 0
             /\ WrapPhase(v.random_phase) # spectrum.orig[v.idx].ph

\* C8: phase_scramble keeps the magnitude of every coefficient, visited or
\* overwritten as a partner; at intensity 1 a visited coefficient becomes
\* its magnitude at the drawn phase (modulo 2*pi).
C8_MagnitudePreserved ==
    Scrambled =>
       /\ \A i \in Cells : spectrum.data[i].mag = spectrum.orig[i].mag
       /\ spectrum.intensity = IntensityDen =>
             \A k \in 1 .. Len(spectrum.visits) :
                LET v == spectrum.visits[k]
                IN /\ spectrum.data[v.idx].mag > 0 =>
                         (spectrum.data[v.idx].ph - v.random_phase) % TwoPi = 0
                   /\ spectrum.data[v.idx] =
                         FromPolar(spectrum.orig[v.idx].mag, v.random_phase)

\* a 4 x 4 spectrum went through at intensity 1 and a paired bin of
\* magnitude 2 moved to a drawn phase other than its own
C8_Witness ==
    /\ Scrambled /\ spectrum.intensity = IntensityDen /\ spectrum.n = 4
    /\ \E k \in 1 .. Len(spectrum.visits) :
          LET v == spectrum.visits[k]
          IN /\ ~IsSelfPaired(4, v.idx)
             /\ spectrum.orig[v.idx].mag = 2
             /\ spectrum.data[v.idx] # spectrum.orig[v.idx]
             /\ spectrum.data[SymIdx(4, v.idx)].mag = 2

\* C10: one phase_scramble call assigns each of the n*n coefficients exactly
\* once, visits each conjugate pair and each self-paired bin exactly once,
\* and draws exactly one random phase per visit.
C10_EachPairVisitedOnce ==
    Scrambled =>
       /\ \A i \in Cells : spectrum.writes[i] = 1
       /\ \A c \in PairClasses(spectrum.n) : Cardinality(VisitsOf(c)) = 1
       /\ Len(spectrum.visits) = Cardinality(PairClasses(spectrum.n))
       /\ spectrum.rng = Advance(spectrum.rng0, Cardinality(PairClasses(spectrum.n)))

\* a 4 x 4 spectrum went through: 4 self-paired bins and 6 pairs
C10_Witness ==
    /\ Scrambled /\ spectrum.n = 4
    /\ Len(spectrum.visits) = 10
    /\ Cardinality({i \in Cells : IsSelfPaired(4, i)}) = 4
    /\ spectrum.data # spectrum.orig

(***************************************************************************)
(* Instance and region properties.                                         *)
(***************************************************************************)
\* C2: every scramble invocation (a direct call or a per-region one) whose
\* image needs a padded size other than the one the plans were built for
\* ends as a TransformSizeMismatch error: no image, no transform applied.
C2_SizeMismatchIsReported ==
    \A i \in DOMAIN scr :
       \A k \in 1 .. Len(calls[i]) :
          \A m \in 1 .. Len(calls[i][k].log) :
             LET v == calls[i][k].log[m]
             IN v.required # v.plan => v.kind = "TransformSizeMismatch"

\* the regions of call c that cover pixel i of its image
Covering(c, i) ==
    LET x == i % c.input.image.w
        y == i \div c.input.image.w
    IN {k \in 1 .. Len(c.input.regions) :
           LET r == c.input.regions[k]
           IN r.x1 <= x /\ x < r.x2 /\ r.y1 <= y /\ y < r.y2}

SetMax(S) == CHOOSE m \in S : \A k \in S : k <= m

\* the pixel of the scrambled crop of region k that lies over pixel i
CropPixel(c, k, i) ==
    LET r == c.input.regions[k]
        x == i % c.input.image.w
        y == i \div c.input.image.w
    IN c.crops[k].px[(y - r.y1) * (r.x2 - r.x1) + (x - r.x1)]

\* the output of call c is `background` where no region covers and the
\* scrambled crop of the last covering region elsewhere
Composited(c, background) ==
    /\ c.output.w = c.input.image.w /\ c.output.h = c.input.image.h
    /\ DOMAIN c.output.px = DOMAIN c.input.image.px
    /\ \A i \in DOMAIN c.input.image.px :
          IF Covering(c, i) = {} THEN c.output.px[i] = background[i]
          ELSE c.output.px[i] = CropPixel(c, SetMax(Covering(c, i)), i)

\* the crops recorded for call c of instance i are what scramble returns:
\* the first one is checked against the instance as it was before the call
FirstCropIsScrambled(i, c) ==
    Len(c.input.regions) >= 1 =>
       c.crops[1] = Scramble([scr[i] EXCEPT !.rng = c.rng0, !.alive = TRUE],
                             Crop(c.input.image, c.input.regions[1])).image

FaceCallsReturned(mode) ==
    {<<i, k>> \in (DOMAIN scr) \X (1 .. MaxCalls) :
        /\ k <= Len(calls[i])
        /\ calls[i][k].input.op = "ok"
        /\ calls[i][k].input.mode = mode
        /\ calls[i][k].kind = "ok"}

\* C4: in Include mode an output pixel covered by no region is the input
\* pixel, a covered one is the pixel of the scrambled crop of the last
\* covering region in list order, and with no region the output is the input.
C4_IncludeComposites ==
    /\ \A ik \in FaceCallsReturned("Include") :
          LET c == calls[ik[1]][ik[2]]
          IN /\ Composited(c, c.input.image.px)
             /\ FirstCropIsScrambled(ik[1], c)
             /\ c.input.regions = <<>> => c.output = c.input.image
    /\ \A i \in DOMAIN scr : \A k \in 1 .. Len(calls[i]) :
          (calls[i][k].input.op = "ok" /\ calls[i][k].input.regions = <<>>)
             => calls[i][k].kind = "ok"

\* an Include call returned with two overlapping regions whose crops differ
\* on a shared pixel, a pixel outside both, and a pixel changed
C4_Witness ==
    \E ik \in FaceCallsReturned("Include") :
       LET c == calls[ik[1]][ik[2]]
       IN /\ Len(c.input.regions) = 2
          /\ c.input.regions[1].x1 # 0
          /\ \E i \in DOMAIN c.output.px :
                Covering(c, i) = {1, 2} /\ CropPixel(c, 1, i) # CropPixel(c, 2, i)
          /\ \E i \in DOMAIN c.output.px : Covering(c, i) = {}
          /\ c.output # c.input.image

Blank(image) == [i \in DOMAIN image.px |-> <<0, 0, 0>>]

\* C5: in Exclude mode the output has the input's dimensions, a pixel
\* covered by no region is blank (never the source pixel), a covered one is
\* the pixel of the scrambled crop of the last covering region, and with no
\* region the output is entirely blank.
C5_ExcludeComposites ==
    \A ik \in FaceCallsReturned("Exclude") :
       LET c == calls[ik[1]][ik[2]]
       IN /\ Composited(c, Blank(c.input.image))
          /\ FirstCropIsScrambled(ik[1], c)
          /\ c.input.regions = <<>> => c.output.px = Blank(c.input.image)

\* an Exclude call returned with two overlapping regions, a covered pixel
\* that is not blank and an uncovered one whose source pixel is not blank
C5_Witness ==
    \E ik \in FaceCallsReturned("Exclude") :
       LET c == calls[ik[1]][ik[2]]
       IN /\ Len(c.input.regions) = 2
          /\ \E i \in DOMAIN c.output.px :
                Covering(c, i) = {1, 2} /\ c.output.px[i] # <<0, 0, 0>>
          /\ \E i \in DOMAIN c.output.px :
                /\ Covering(c, i) = {}
                /\ c.input.image.px[i] # <<0, 0, 0>>
                /\ c.output.px[i] = <<0, 0, 0>>

\* the draws one scramble invocation makes: one per pair class, per channel
DrawsOf(i, c) ==
    IF c.kind = "ok" /\ scr[i].options.phase_scramble
    THEN 3 * Cardinality(PairClasses(c.log[1].required))
    ELSE 0

SameInputsUpTo(k) == \A j \in 1 .. k : calls[1][j].input = calls[2][j].input

\* C6: two instances built with the same explicit seed, dimensions and
\* options and handed the same scramble calls return the same outputs and
\* hold the same generator state after every call; the generator starts from
\* the seed and only ever advances, one draw at a time, across channels and
\* calls.
C6_SameSeedSameOutputs ==
    (DOMAIN scr = {1, 2} /\ scr[1].seed = scr[2].seed /\ scr[1].seed # NoSeed) =>
       /\ \A k \in 1 .. Min(Len(calls[1]), Len(calls[2])) :
             SameInputsUpTo(k) =>
                /\ calls[1][k].kind = calls[2][k].kind
                /\ calls[1][k].output = calls[2][k].output
                /\ calls[1][k].rng = calls[2][k].rng
       /\ \A i \in {1, 2} : \A k \in 1 .. Len(calls[i]) :
             /\ calls[i][k].rng0 =
                   IF k = 1 THEN SeedFromU64(scr[i].seed[1]) ELSE calls[i][k - 1].rng
             /\ calls[i][k].rng = Advance(calls[i][k].rng0, DrawsOf(i, calls[i][k]))
       /\ \A i \in {1, 2} :
             scr[i].rng = IF calls[i] = <<>> THEN SeedFromU64(scr[i].seed[1])
                          ELSE calls[i][Len(calls[i])].rng

\* both instances answered two calls, each changing the image and the
\* generator state
C6_Witness ==
    /\ DOMAIN scr = {1, 2} /\ scr[1].seed # NoSeed
    /\ Len(calls[1]) = 2 /\ Len(calls[2]) = 2
    /\ \A k \in 1 .. 2 :
          /\ calls[1][k].kind = "ok"
          /\ calls[1][k].output # calls[1][k].input.image
          /\ calls[1][k].rng # calls[1][k].rng0
          /\ calls[2][k].output = calls[1][k].output
    /\ calls[1][1].input.image = calls[1][2].input.image
    /\ calls[1][1].output # calls[1][2].output

====
